---- MODULE Spec2Model ----
(***************************************************************************)
(* A model of the riscv crate: the engine / module / memory / instance     *)
(* runtime (engine.rs, config.rs, module.rs, memory.rs, instance.rs) and   *)
(* the RV32I decoder (instruction.rs).                                     *)
(*                                                                         *)
(* The runtime is single threaded (Engine is held in an Rc), so at most    *)
(* one set_native_code call is in flight; its position is `frame`.        *)
(***************************************************************************)
EXTENDS Integers, Sequences, FiniteSets, TLC

(***************************************************************************)
(* Bounds of the model.                                                    *)
(***************************************************************************)
NumEngines == 2        \* Engine::new calls
NumModules == 1        \* Module::new calls that succeed
NumMemories == 1       \* Memory::new calls
MaxCodeSize == 1       \* largest Config::max_code_size the host supplies
MaxInstanceMemory == 2 \* the Config::max_instance_memory the host supplies

(***************************************************************************)
(* config.rs                                                               *)
(***************************************************************************)
NATIVE_CODE_MULTIPLIER == 4

\* Config::max_native_code_size, for a config whose max_code_size is c.  The
\* sizes the runtime below is run with are far from the width of a usize;
\* the product at full width is usize_mul, further down.
max_native_code_size(c) == c * NATIVE_CODE_MULTIPLIER

EngineIds == 1..NumEngines
ModuleIds == 1..NumModules
MemoryIds == 1..NumMemories

\* The values of Config::max_code_size the host builds engines with.
ConfigSizes == 1..MaxCodeSize

(***************************************************************************)
(* libc page protections.                                                  *)
(***************************************************************************)
PROT_READ == "R"
PROT_WRITE == "W"
PROT_EXEC == "X"

\* The little-endian bytes of 0xD65F03C0, the ARM64 `ret` that ends the
\* host driver's identity function.  On its own it is the shortest function
\* that returns its argument: w0 is left as the caller passed it.
RET == <<192, 3, 95, 214>>

\* The byte slices the host passes to set_native_code for an arena of
\* `size` bytes: the lengths 0, 1, size and size + 1 (one byte too many),
\* each with two contents: the first n bytes of a run of `ret`
\* instructions, and n bytes of no known meaning.  All bytes are non-zero
\* and the two contents of one length differ at every offset.
Code(n, b) == [i \in 1..n |-> IF b = 0 THEN RET[((i - 1) % 4) + 1] ELSE 16 + i]
CodeSlices(size) == { Code(n, b) : n \in {0, 1, size, size + 1}, b \in 0..1 }

\* The 32-bit arguments and return values of Instance::call that are drawn
\* (2^32 - 1 as the i32 with the same bits).
U32Samples == {0, 1, 42, 0 - 1}

VARIABLES
    engine,     \* engine[e]: the Rc<Engine> allocation e
    module,     \* module[m]: the Module m and its code arena (`written` is
                \* history: the longest slice copied into the arena so far;
                \* `installed` is history: the slice of the last call that
                \* returned Ok; `stale`: bytes were copied into the arena and
                \* the instruction cache has not been invalidated since)
    memory,     \* memory[k]: the Memory k
    instance,   \* the live Instances, each the module and memory it owns
    frame,      \* the set_native_code call in flight, or idle (`steps`:
                \* the steps it has taken; `flushed`: the lengths of the
                \* ranges it has passed to clear_cache)
    ret,        \* what the last finished operation returned
    crashed,    \* the process died on a fault inside Instance::call
    word,       \* decoder: the instruction word
    insn,       \* decoder: what decode(word) returned
    text,       \* decoder: what formatting insn with Display produced
    config,     \* config.rs: the max_code_size of a Config, a usize
    derived     \* config.rs: what max_native_code_size() did on config

vars == <<engine, module, memory, instance, frame, ret, crashed, word, insn,
          text, config, derived>>
rtvars == <<engine, module, memory, instance, frame, ret, crashed>>
decvars == <<word, insn, text, config, derived>>

NoEngine == [st |-> "none", max_code_size |-> 0, held |-> FALSE, strong |-> 0]
NoModule == [st |-> "none", engine |-> 0, native_code_size |-> 0,
             mapped |-> FALSE, prot |-> {}, bytes |-> <<>>, munmaps |-> 0,
             written |-> 0, installed |-> <<>>, stale |-> FALSE]
NoMemory == [st |-> "none", engine |-> 0, bytes |-> <<>>]
Idle == [pc |-> "idle", m |-> 0, code |-> <<>>, entry |-> NoModule,
         steps |-> <<>>, flushed |-> <<>>]
NoRet == [op |-> "none", res |-> "none", m |-> 0, len |-> 0, env |-> "none",
          val |-> 0, view |-> <<>>, pc |-> 0, arg |-> 0, steps |-> <<>>,
          flushed |-> <<>>]
NoText == "none"
NoDerived == [kind |-> "none"]
NoInsn == [tag |-> "none"]

\* The smallest id of f that is not in use yet.
Fresh(f, ids, x) == f[x].st = "none" /\ \A y \in ids : y < x => f[y].st # "none"

\* Engine of module m, and the size of m's arena.
ArenaSize(m) == max_native_code_size(engine[module[m].engine].max_code_size)

Zeros_Dirty(n) == [i \in 1..n |-> 1]

\* The contents of a fresh anonymous mapping of n bytes.
Zeros(n) == [i \in 1..n |-> 0]

(***************************************************************************)
(* Rc<Engine>: one strong reference is released.                           *)
(***************************************************************************)
Release_Free(eng, e) == [eng EXCEPT ![e].strong = @ - 1, ![e].st = "freed"]

Release(eng, e) ==
    [eng EXCEPT ![e].strong = @ - 1,
                ![e].st = IF eng[e].strong = 1 THEN "freed" ELSE @]

(***************************************************************************)
(* engine.rs: Engine::new(config) -> Rc<Engine>                            *)
(***************************************************************************)
EngineNew(e, c) ==
    /\ ~crashed /\ frame.pc = "idle"
    /\ Fresh(engine, EngineIds, e)
    /\ engine' = [engine EXCEPT ![e] = [st |-> "live", max_code_size |-> c,
                                        held |-> TRUE, strong |-> 1]]
    /\ ret' = NoRet
    /\ UNCHANGED <<module, memory, instance, frame, crashed>>
    /\ UNCHANGED decvars

\* The host drops its own handle to engine e.
EngineDropHandle(e) ==
    /\ ~crashed /\ frame.pc = "idle"
    /\ engine[e].st = "live" /\ engine[e].held
    /\ engine' = Release([engine EXCEPT ![e].held = FALSE], e)
    /\ ret' = NoRet
    /\ UNCHANGED <<module, memory, instance, frame, crashed>>
    /\ UNCHANGED decvars

DropModule_Leak(mods, m) == [mods EXCEPT ![m].st = "dropped"]

(***************************************************************************)
(* module.rs: Drop for Module (munmap of the arena).  munmap of a whole    *)
(* mapping with the length it was mapped with does not fail.               *)
(***************************************************************************)
DropModule(mods, m) ==
    [mods EXCEPT ![m].st = "dropped", ![m].mapped = FALSE,
                 ![m].prot = {}, ![m].bytes = <<>>, ![m].written = 0,
                 ![m].installed = <<>>, ![m].stale = FALSE,
                 ![m].munmaps = @ + 1]

(***************************************************************************)
(* module.rs: Module::new(engine) -> Result<Box<Module>, Error>.  The host *)
(* passes a clone of its handle.  mmap may fail, and fails for length 0.   *)
(***************************************************************************)
ModuleNew(m, e, mmap_ok) ==
    /\ ~crashed /\ frame.pc = "idle"
    /\ engine[e].st = "live" /\ engine[e].held
    /\ Fresh(module, ModuleIds, m)
    /\ IF mmap_ok /\ max_native_code_size(engine[e].max_code_size) > 0
       THEN /\ module' = [module EXCEPT ![m] =
                    [st |-> "host", engine |-> e, native_code_size |-> 0,
                     mapped |-> TRUE, prot |-> {PROT_READ, PROT_WRITE},
                     bytes |-> Zeros(max_native_code_size(engine[e].max_code_size)),
                     munmaps |-> 0, written |-> 0, installed |-> <<>>,
                     stale |-> FALSE]]
            /\ engine' = [engine EXCEPT ![e].strong = @ + 1]
            /\ ret' = [NoRet EXCEPT !.op = "Module::new", !.res = "Ok", !.m = m]
       ELSE /\ ret' = [NoRet EXCEPT !.op = "Module::new",
                                    !.res = "MemoryAllocationFailed"]
            /\ UNCHANGED <<module, engine>>
    /\ UNCHANGED <<memory, instance, frame, crashed>>
    /\ UNCHANGED decvars

\* The host drops a module it holds.
ModuleDrop(m) ==
    /\ ~crashed /\ frame.pc = "idle"
    /\ module[m].st = "host"
    /\ module' = DropModule(module, m)
    /\ engine' = Release(engine, module[m].engine)
    /\ ret' = NoRet
    /\ UNCHANGED <<memory, instance, frame, crashed>>
    /\ UNCHANGED decvars

(***************************************************************************)
(* memory.rs: Memory::new(engine) -> Box<Memory>, and its drop.  The       *)
(* buffer is `vec![0; max_instance_memory]`; dropping the box frees it.    *)
(***************************************************************************)
\* The drop of a Box<Memory>: its buffer is freed.
DropMemory(mems, k) == [mems EXCEPT ![k].st = "dropped", ![k].bytes = <<>>]

MemoryNew(k, e) ==
    /\ ~crashed /\ frame.pc = "idle"
    /\ engine[e].st = "live" /\ engine[e].held
    /\ Fresh(memory, MemoryIds, k)
    /\ memory' = [memory EXCEPT ![k] = [st |-> "host", engine |-> e,
                                        bytes |-> Zeros(MaxInstanceMemory)]]
    /\ engine' = [engine EXCEPT ![e].strong = @ + 1]
    /\ ret' = NoRet
    /\ UNCHANGED <<module, instance, frame, crashed>>
    /\ UNCHANGED decvars

MemoryDrop(k) ==
    /\ ~crashed /\ frame.pc = "idle"
    /\ memory[k].st = "host"
    /\ memory' = DropMemory(memory, k)
    /\ engine' = Release(engine, memory[k].engine)
    /\ ret' = NoRet
    /\ UNCHANGED <<module, instance, frame, crashed>>
    /\ UNCHANGED decvars

(***************************************************************************)
(* module.rs: Module::set_native_code(&mut self, code), step by step.      *)
(***************************************************************************)
CodeTooLarge_Ge(len, m) == len >= ArenaSize(m)

\* The size guard: `code.len() > self.engine.config().max_native_code_size()`.
CodeTooLarge(len, m) == len > ArenaSize(m)

\* The protection asked for by the first mprotect.
WriteProt == {PROT_READ, PROT_WRITE}

ExecProt_Rwx == {PROT_READ, PROT_WRITE, PROT_EXEC}

\* The protection asked for by the second mprotect.
ExecProt == {PROT_READ, PROT_EXEC}

\* libc::mprotect over the whole arena: on failure nothing changes.
mprotect(mods, m, prot, ok) == IF ok THEN [mods EXCEPT ![m].prot = prot] ELSE mods

CopyInto_ZeroTail(bytes, code) ==
    [i \in 1..Len(bytes) |-> IF i <= Len(code) THEN code[i] ELSE 0]

\* std::ptr::copy_nonoverlapping(code.as_ptr(), native_code_addr, code.len()).
CopyInto(bytes, code) ==
    [i \in 1..Len(bytes) |-> IF i <= Len(code) THEN code[i] ELSE bytes[i]]

\* The error a failing mprotect makes set_native_code return.
ProtectError == "MemoryProtectionFailed"

CacheError_Protect == "MemoryProtectionFailed"

\* The error a failing clear_cache makes set_native_code return.
CacheError == "ClearCacheFailed"

SncReturn(m, code, res, env, steps, flushed) ==
    /\ frame' = Idle
    /\ ret' = [NoRet EXCEPT !.op = "set_native_code", !.res = res, !.m = m,
                            !.len = Len(code), !.env = env, !.steps = steps,
                            !.flushed = flushed]

\* Entry and the size check.
SncCall(m, code) ==
    /\ ~crashed /\ frame.pc = "idle"
    /\ module[m].st = "host"
    /\ code \in CodeSlices(ArenaSize(m))
    /\ IF CodeTooLarge(Len(code), m)
       THEN SncReturn(m, code, "InvalidCodeSize", "none", <<"size">>, <<>>)
       ELSE /\ frame' = [pc |-> "rw", m |-> m, code |-> code, entry |-> module[m],
                         steps |-> <<"size">>, flushed |-> <<>>]
            /\ ret' = [NoRet EXCEPT !.op = "set_native_code", !.res = "pending",
                                    !.m = m, !.len = Len(code)]
    /\ UNCHANGED <<engine, module, memory, instance, crashed>>
    /\ UNCHANGED decvars

\* mprotect(addr, max_native_code_size, PROT_READ | PROT_WRITE).
SncProtectRW(ok) ==
    /\ ~crashed /\ frame.pc = "rw"
    /\ module' = mprotect(module, frame.m, WriteProt, ok)
    /\ IF ok
       THEN /\ frame' = [frame EXCEPT !.pc = "copy", !.steps = Append(@, "rw")]
            /\ UNCHANGED ret
       ELSE SncReturn(frame.m, frame.code, ProtectError, "rw",
                      Append(frame.steps, "rw"), frame.flushed)
    /\ UNCHANGED <<engine, memory, instance, crashed>>
    /\ UNCHANGED decvars

\* The copy to offset 0; a store to a page that is not writable faults.
SncCopy ==
    /\ ~crashed /\ frame.pc = "copy"
    /\ IF PROT_WRITE \in module[frame.m].prot
       THEN /\ module' = [module EXCEPT
                    ![frame.m].bytes = CopyInto(@, frame.code),
                    ![frame.m].written = IF Len(frame.code) > @ THEN Len(frame.code) ELSE @,
                    ![frame.m].stale = IF Len(frame.code) > 0 THEN TRUE ELSE @]
            /\ frame' = [frame EXCEPT !.pc = "rx", !.steps = Append(@, "copy")]
            /\ UNCHANGED crashed
       ELSE /\ crashed' = TRUE
            /\ UNCHANGED <<module, frame>>
    /\ UNCHANGED <<engine, memory, instance, ret>>
    /\ UNCHANGED decvars

SncProtectRX_SkipCache(ok) ==
    /\ ~crashed /\ frame.pc = "rx"
    /\ module' = mprotect(module, frame.m, ExecProt, ok)
    /\ IF ok
       THEN /\ frame' = [frame EXCEPT !.pc = "record", !.steps = Append(@, "rx")]
            /\ UNCHANGED ret
       ELSE SncReturn(frame.m, frame.code, ProtectError, "rx",
                      Append(frame.steps, "rx"), frame.flushed)
    /\ UNCHANGED <<engine, memory, instance, crashed>>
    /\ UNCHANGED decvars

\* mprotect(addr, max_native_code_size, PROT_READ | PROT_EXEC).
SncProtectRX(ok) ==
    /\ ~crashed /\ frame.pc = "rx"
    /\ module' = mprotect(module, frame.m, ExecProt, ok)
    /\ IF ok
       THEN /\ frame' = [frame EXCEPT !.pc = "cache", !.steps = Append(@, "rx")]
            /\ UNCHANGED ret
       ELSE SncReturn(frame.m, frame.code, ProtectError, "rx",
                      Append(frame.steps, "rx"), frame.flushed)
    /\ UNCHANGED <<engine, memory, instance, crashed>>
    /\ UNCHANGED decvars

SncClearCache_Records(ok) ==
    /\ ~crashed /\ frame.pc = "cache"
    /\ IF ok
       THEN /\ frame' = [frame EXCEPT !.pc = "record", !.steps = Append(@, "cache"),
                                      !.flushed = Append(@, Len(frame.code))]
            /\ module' = [module EXCEPT ![frame.m].stale = FALSE]
            /\ UNCHANGED ret
       ELSE /\ SncReturn(frame.m, frame.code, CacheError, "cache",
                         Append(frame.steps, "cache"),
                         Append(frame.flushed, Len(frame.code)))
            /\ module' = [module EXCEPT ![frame.m].native_code_size = Len(frame.code)]
    /\ UNCHANGED <<engine, memory, instance, crashed>>
    /\ UNCHANGED decvars

\* clear_cache(addr, addr + code.len()); when it succeeds the instruction
\* cache agrees with the arena again.
SncClearCache(ok) ==
    /\ ~crashed /\ frame.pc = "cache"
    /\ IF ok
       THEN /\ frame' = [frame EXCEPT !.pc = "record", !.steps = Append(@, "cache"),
                                      !.flushed = Append(@, Len(frame.code))]
            /\ module' = [module EXCEPT ![frame.m].stale = FALSE]
            /\ UNCHANGED ret
       ELSE /\ SncReturn(frame.m, frame.code, CacheError, "cache",
                         Append(frame.steps, "cache"),
                         Append(frame.flushed, Len(frame.code)))
            /\ UNCHANGED module
    /\ UNCHANGED <<engine, memory, instance, crashed>>
    /\ UNCHANGED decvars

\* self.native_code_size = code.len(); Ok(())
SncRecord ==
    /\ ~crashed /\ frame.pc = "record"
    /\ module' = [module EXCEPT ![frame.m].native_code_size = Len(frame.code),
                                ![frame.m].installed = frame.code]
    /\ SncReturn(frame.m, frame.code, "Ok", "none", Append(frame.steps, "record"),
                 frame.flushed)
    /\ UNCHANGED <<engine, memory, instance, crashed>>
    /\ UNCHANGED decvars

(***************************************************************************)
(* module.rs: Module::native_code(&self) -> &[u8]                          *)
(***************************************************************************)
native_code_Whole(m) == module[m].bytes

\* `slice::from_raw_parts(native_code_addr, native_code_size)`.
native_code(m) == SubSeq(module[m].bytes, 1, module[m].native_code_size)

NativeCode(m) ==
    /\ ~crashed /\ frame.pc = "idle"
    /\ module[m].st = "host"
    /\ ret' = [NoRet EXCEPT !.op = "native_code", !.res = "Ok", !.m = m,
                            !.view = native_code(m)]
    /\ UNCHANGED <<engine, module, memory, instance, frame, crashed>>
    /\ UNCHANGED decvars

(***************************************************************************)
(* instance.rs                                                             *)
(***************************************************************************)
SameEngine_ByConfig(m, k) ==
    engine[module[m].engine].max_code_size = engine[memory[k].engine].max_code_size

\* `Rc::ptr_eq(&module.engine, &memory.engine)`: the same allocation.
SameEngine(m, k) == module[m].engine = memory[k].engine

InstanceNew_Shared(m, k) ==
    /\ ~crashed /\ frame.pc = "idle"
    /\ module[m].st = "host" /\ memory[k].st = "host"
    /\ IF SameEngine(m, k)
       THEN /\ instance' = instance \cup {[module |-> m, memory |-> k]}
            /\ ret' = [NoRet EXCEPT !.op = "Instance::new", !.res = "Ok", !.m = m]
            /\ UNCHANGED <<engine, module, memory>>
       ELSE /\ module' = DropModule(module, m)
            /\ memory' = DropMemory(memory, k)
            /\ engine' = Release(Release(engine, module[m].engine),
                                 memory[k].engine)
            /\ ret' = [NoRet EXCEPT !.op = "Instance::new",
                                    !.res = "InvalidEngine", !.m = m]
            /\ UNCHANGED instance
    /\ UNCHANGED <<frame, crashed>>
    /\ UNCHANGED decvars

InstanceNew_KeepOnError(m, k) ==
    /\ ~crashed /\ frame.pc = "idle"
    /\ module[m].st = "host" /\ memory[k].st = "host"
    /\ IF SameEngine(m, k)
       THEN /\ instance' = instance \cup {[module |-> m, memory |-> k]}
            /\ module' = [module EXCEPT ![m].st = "inst"]
            /\ memory' = [memory EXCEPT ![k].st = "inst"]
            /\ ret' = [NoRet EXCEPT !.op = "Instance::new", !.res = "Ok", !.m = m]
       ELSE /\ ret' = [NoRet EXCEPT !.op = "Instance::new",
                                    !.res = "InvalidEngine", !.m = m]
            /\ UNCHANGED <<instance, module, memory>>
    /\ UNCHANGED <<engine, frame, crashed>>
    /\ UNCHANGED decvars

\* Instance::new(module, memory) -> Result<Self, Error>.  On InvalidEngine
\* the two boxes the call took by value are dropped when it returns.
InstanceNew(m, k) ==
    /\ ~crashed /\ frame.pc = "idle"
    /\ module[m].st = "host" /\ memory[k].st = "host"
    /\ IF SameEngine(m, k)
       THEN /\ instance' = instance \cup {[module |-> m, memory |-> k]}
            /\ module' = [module EXCEPT ![m].st = "inst"]
            /\ memory' = [memory EXCEPT ![k].st = "inst"]
            /\ ret' = [NoRet EXCEPT !.op = "Instance::new", !.res = "Ok", !.m = m]
            /\ UNCHANGED engine
       ELSE /\ module' = DropModule(module, m)
            /\ memory' = DropMemory(memory, k)
            /\ engine' = Release(Release(engine, module[m].engine),
                                 memory[k].engine)
            /\ ret' = [NoRet EXCEPT !.op = "Instance::new",
                                    !.res = "InvalidEngine", !.m = m]
            /\ UNCHANGED instance
    /\ UNCHANGED <<frame, crashed>>
    /\ UNCHANGED decvars

\* The bytes at offset pc are a `ret` the processor can fetch: the function
\* there returns its argument.
ReturnsArg(bytes, pc) ==
    /\ pc % 4 = 0 /\ pc + 4 <= Len(bytes)
    /\ SubSeq(bytes, pc + 1, pc + 4) = RET

InstanceCall_Checked(inst, pc, arg, out, fault) ==
    /\ ~crashed /\ frame.pc = "idle"
    /\ inst \in instance
    /\ pc \in {0, 1, ArenaSize(inst.module)}
    /\ ret' = [NoRet EXCEPT !.op = "call", !.m = inst.module, !.pc = pc, !.arg = arg,
                            !.res = IF pc >= module[inst.module].native_code_size
                                    THEN "InvalidInstruction" ELSE "Ok",
                            !.val = out]
    /\ UNCHANGED <<engine, module, memory, instance, frame, crashed>>
    /\ UNCHANGED decvars

InstanceCall_DropsArg(inst, pc, arg, out, fault) ==
    /\ ~crashed /\ frame.pc = "idle"
    /\ inst \in instance
    /\ pc \in {0, 1, ArenaSize(inst.module)}
    /\ LET m == inst.module
           faults == PROT_EXEC \notin module[m].prot
       IN  /\ crashed' = faults
           /\ ret' = [NoRet EXCEPT !.op = "call", !.m = m, !.pc = pc, !.arg = arg,
                                   !.res = IF faults THEN "Fault" ELSE "Ok",
                                   !.val = IF faults THEN 0 ELSE out]
    /\ UNCHANGED <<engine, module, memory, instance, frame>>
    /\ UNCHANGED decvars

\* Instance::call(&mut self, pc, arg): `Ok(func(arg))` for func at
\* native_code_addr + pc.  A jump to a page without execute permission
\* faults.  Where the processor fetches a `ret` the function returns arg;
\* anywhere else (other bytes, a misaligned pc, a pc past the arena, a stale
\* instruction cache) what runs is not known: it returns some value or
\* faults.
InstanceCall(inst, pc, arg, out, fault) ==
    /\ ~crashed /\ frame.pc = "idle"
    /\ inst \in instance
    /\ pc \in {0, 1, ArenaSize(inst.module)}
    /\ LET m == inst.module
           known == /\ PROT_EXEC \in module[m].prot
                    /\ ~module[m].stale
                    /\ ReturnsArg(module[m].bytes, pc)
           faults == \/ PROT_EXEC \notin module[m].prot
                     \/ (~known /\ fault)
       IN  /\ crashed' = faults
           /\ ret' = [NoRet EXCEPT !.op = "call", !.m = m, !.pc = pc, !.arg = arg,
                                   !.res = IF faults THEN "Fault" ELSE "Ok",
                                   !.val = IF faults THEN 0
                                           ELSE IF known THEN arg ELSE out]
    /\ UNCHANGED <<engine, module, memory, instance, frame>>
    /\ UNCHANGED decvars

InstanceDecompose_Drop(inst) ==
    /\ ~crashed /\ frame.pc = "idle"
    /\ inst \in instance
    /\ instance' = instance \ {inst}
    /\ module' = DropModule(module, inst.module)
    /\ memory' = [memory EXCEPT ![inst.memory].st = "host"]
    /\ engine' = Release(engine, module[inst.module].engine)
    /\ ret' = [NoRet EXCEPT !.op = "decompose", !.res = "Ok", !.m = inst.module]
    /\ UNCHANGED <<frame, crashed>>
    /\ UNCHANGED decvars

\* Instance::decompose(self) -> (Box<Module>, Box<Memory>)
InstanceDecompose(inst) ==
    /\ ~crashed /\ frame.pc = "idle"
    /\ inst \in instance
    /\ instance' = instance \ {inst}
    /\ module' = [module EXCEPT ![inst.module].st = "host"]
    /\ memory' = [memory EXCEPT ![inst.memory].st = "host"]
    /\ ret' = [NoRet EXCEPT !.op = "decompose", !.res = "Ok", !.m = inst.module]
    /\ UNCHANGED <<engine, frame, crashed>>
    /\ UNCHANGED decvars

\* The host drops an instance: its module and its memory are dropped.
InstanceDrop(inst) ==
    /\ ~crashed /\ frame.pc = "idle"
    /\ inst \in instance
    /\ instance' = instance \ {inst}
    /\ module' = DropModule(module, inst.module)
    /\ memory' = DropMemory(memory, inst.memory)
    /\ engine' = Release(Release(engine, module[inst.module].engine),
                         memory[inst.memory].engine)
    /\ ret' = NoRet
    /\ UNCHANGED <<frame, crashed>>
    /\ UNCHANGED decvars

(***************************************************************************)
(* instruction.rs: the decoder.  A u32 word is represented by the i32 with *)
(* the same 32 bits (word - 2^32 when bit 31 is set), so that \div and %   *)
(* by powers of two are the shifts and masks of the code.                  *)
(***************************************************************************)
REG_OPCODE == 51        \* 0x33
ADD_FUNCT3 == 0
ADD_FUNCT7 == 0
SUB_FUNCT7 == 32        \* 0x20
XOR_FUNCT3 == 4
XOR_FUNCT7 == 0
OR_FUNCT3 == 6
OR_FUNCT7 == 0

IMM_OPCODE == 19        \* 0x13
ADDI_FUNCT3 == 0
SLTI_FUNCT3 == 2
SLTIU_FUNCT3 == 3
XORI_FUNCT3 == 4
ORI_FUNCT3 == 6
ANDI_FUNCT3 == 7
SLLI_FUNCT3 == 1
SLRI_FUNCT3 == 5
SLLI_FUNCT7 == 0
SLRI_FUNCT7 == 0
SRAI_FUNCT7 == 32       \* 0x20

LOAD_OPCODE == 3
LB_FUNCT3 == 0
LH_FUNCT3 == 1
LW_FUNCT3 == 2
LBU_FUNCT3 == 4
LHU_FUNCT3 == 5

JALR_OPCODE == 103      \* 0x67
JALR_FUNCT3 == 0

SYSTEM_OPCODE == 115    \* 0x73
SYSTEM_FUNCT3 == 0
ECALL_IMM == 0
EBREAK_IMM == 1

FUNCT3_SHIFT == 12
RD_SHIFT == 7
RS1_SHIFT == 15
RS2_SHIFT == 20
IMM_I_SHIFT == 20
FUNCT7_SHIFT == 25

\* `(word & MASK) >> SHIFT` for a mask of `width` one-bits from bit `shift`.
Field(w, shift, width) == (w \div (2 ^ shift)) % (2 ^ width)

\* `word & OPCODE_MASK` (0x7f).
opcode_of(w) == w % 128
\* `(((word & FUNCT3_MASK) >> FUNCT3_SHIFT) & 0x7) as u8` (mask 0x7000).
funct3_of(w) == Field(w, FUNCT3_SHIFT, 3) % 8
\* `(word & FUNCT7_MASK) >> FUNCT7_SHIFT` (mask 0xfe000000).
funct7_of(w) == Field(w, FUNCT7_SHIFT, 7)
\* `((word & RD_MASK) >> RD_SHIFT) as u8` (mask 0xf80).
rd_of(w) == Field(w, RD_SHIFT, 5)
rs1_of_Wide(w) == Field(w, RS1_SHIFT, 6)

\* `((word & RS1_MASK) >> RS1_SHIFT) as u8` (mask 0xf8000).
rs1_of(w) == Field(w, RS1_SHIFT, 5)
\* `((word & RS2_MASK) >> RS2_SHIFT) as u8` (mask 0x1f00000).
rs2_of(w) == Field(w, RS2_SHIFT, 5)
imm_i_of_Logical(w) == Field(w, IMM_I_SHIFT, 12)

\* `((word & IMM_I_MASK) as i32 >> IMM_I_SHIFT) as i16` (mask 0xfff00000):
\* an arithmetic shift of the signed word.
imm_i_of(w) == w \div (2 ^ IMM_I_SHIFT)
imm_u_of_Low(w) == Field(w, IMM_I_SHIFT, 5)

\* `(word & IMM_I_MASK) >> IMM_I_SHIFT` on the u32: a logical shift.
imm_u_of(w) == Field(w, IMM_I_SHIFT, 12)
shift_imm_of_NoMask(imm) == imm

\* `imm & 0x1f` on the i16.
shift_imm_of(imm) == imm % 32

\* The values of RiscVInstruction.
RType(tag, w) == [tag |-> tag, rd |-> rd_of(w), rs1 |-> rs1_of(w), rs2 |-> rs2_of(w)]
IType(tag, w) == [tag |-> tag, rd |-> rd_of(w), rs1 |-> rs1_of(w), imm |-> imm_i_of(w)]
ShiftType(tag, w) ==
    [tag |-> tag, rd |-> rd_of(w), rs1 |-> rs1_of(w), imm |-> shift_imm_of(imm_i_of(w))]
Unsupported_Opcode(w) == [tag |-> "Unsupported", word |-> opcode_of(w)]

\* `RiscVInstruction::Unsupported(word)`.
Unsupported(w) == [tag |-> "Unsupported", word |-> w]
\* `unreachable!(...)`: the arm panics.
Panic == [tag |-> "Panic"]

DecodeReg_AnyFunct7(w) ==
    CASE funct3_of(w) = ADD_FUNCT3 ->
            IF funct7_of(w) = SUB_FUNCT7 THEN RType("Sub", w) ELSE RType("Add", w)
      [] funct3_of(w) = XOR_FUNCT3 -> RType("Xor", w)
      [] funct3_of(w) = OR_FUNCT3 -> RType("Or", w)
      [] OTHER -> Unsupported(w)

\* The REG_OPCODE arm of decode.
DecodeReg(w) ==
    CASE funct3_of(w) = ADD_FUNCT3 ->
            IF funct7_of(w) = ADD_FUNCT7 THEN RType("Add", w)
            ELSE IF funct7_of(w) = SUB_FUNCT7 THEN RType("Sub", w)
            ELSE Unsupported(w)
      [] funct3_of(w) = XOR_FUNCT3 ->
            IF funct7_of(w) = XOR_FUNCT7 THEN RType("Xor", w) ELSE Unsupported(w)
      [] funct3_of(w) = OR_FUNCT3 ->
            IF funct7_of(w) = OR_FUNCT7 THEN RType("Or", w) ELSE Unsupported(w)
      [] OTHER -> Unsupported(w)

DecodeImm_NoAndi(w) ==
    CASE funct3_of(w) = ADDI_FUNCT3 -> IType("Addi", w)
      [] funct3_of(w) = SLTI_FUNCT3 -> IType("Slti", w)
      [] funct3_of(w) = SLTIU_FUNCT3 -> IType("Sltiu", w)
      [] funct3_of(w) = SLLI_FUNCT3 ->
            IF funct7_of(w) = SLLI_FUNCT7 THEN ShiftType("Slli", w) ELSE Unsupported(w)
      [] funct3_of(w) = SLRI_FUNCT3 ->
            IF funct7_of(w) = SRAI_FUNCT7 THEN ShiftType("Srai", w)
            ELSE IF funct7_of(w) = SLRI_FUNCT7 THEN ShiftType("Slri", w)
            ELSE Unsupported(w)
      [] funct3_of(w) = XORI_FUNCT3 -> IType("Xori", w)
      [] funct3_of(w) = ORI_FUNCT3 -> IType("Ori", w)
      [] OTHER -> Panic

\* The IMM_OPCODE arm of decode.
DecodeImm(w) ==
    CASE funct3_of(w) = ADDI_FUNCT3 -> IType("Addi", w)
      [] funct3_of(w) = SLTI_FUNCT3 -> IType("Slti", w)
      [] funct3_of(w) = SLTIU_FUNCT3 -> IType("Sltiu", w)
      [] funct3_of(w) = SLLI_FUNCT3 ->
            IF funct7_of(w) = SLLI_FUNCT7 THEN ShiftType("Slli", w) ELSE Unsupported(w)
      [] funct3_of(w) = SLRI_FUNCT3 ->
            IF funct7_of(w) = SRAI_FUNCT7 THEN ShiftType("Srai", w)
            ELSE IF funct7_of(w) = SLRI_FUNCT7 THEN ShiftType("Slri", w)
            ELSE Unsupported(w)
      [] funct3_of(w) = XORI_FUNCT3 -> IType("Xori", w)
      [] funct3_of(w) = ORI_FUNCT3 -> IType("Ori", w)
      [] funct3_of(w) = ANDI_FUNCT3 -> IType("Andi", w)
      [] OTHER -> Panic

\* The LOAD_OPCODE arm of decode.
DecodeLoad(w) ==
    CASE funct3_of(w) = LB_FUNCT3 -> IType("Lb", w)
      [] funct3_of(w) = LH_FUNCT3 -> IType("Lh", w)
      [] funct3_of(w) = LW_FUNCT3 -> IType("Lw", w)
      [] funct3_of(w) = LBU_FUNCT3 -> IType("Lbu", w)
      [] funct3_of(w) = LHU_FUNCT3 -> IType("Lhu", w)
      [] OTHER -> Unsupported(w)

DecodeJalr_AnyFunct3(w) == IType("Jalr", w)

\* The JALR_OPCODE arm of decode.
DecodeJalr(w) ==
    IF Field(w, FUNCT3_SHIFT, 3) = JALR_FUNCT3 THEN IType("Jalr", w) ELSE Unsupported(w)

\* The SYSTEM_OPCODE arm of decode.
DecodeSystem(w) ==
    IF Field(w, FUNCT3_SHIFT, 3) = SYSTEM_FUNCT3
    THEN IF rd_of(w) = 0 /\ rs1_of(w) = 0
         THEN CASE imm_u_of(w) = ECALL_IMM -> [tag |-> "Ecall"]
                [] imm_u_of(w) = EBREAK_IMM -> [tag |-> "Ebreak"]
                [] OTHER -> Unsupported(w)
         ELSE Unsupported(w)
    ELSE Unsupported(w)

\* RiscVInstruction::decode(word).
decode(w) ==
    CASE opcode_of(w) = REG_OPCODE -> DecodeReg(w)
      [] opcode_of(w) = IMM_OPCODE -> DecodeImm(w)
      [] opcode_of(w) = LOAD_OPCODE -> DecodeLoad(w)
      [] opcode_of(w) = JALR_OPCODE -> DecodeJalr(w)
      [] opcode_of(w) = SYSTEM_OPCODE -> DecodeSystem(w)
      [] OTHER -> Unsupported(w)

(***************************************************************************)
(* instruction.rs: Display for RiscVInstruction.                           *)
(***************************************************************************)
DecChars == <<"0", "1", "2", "3", "4", "5", "6", "7", "8", "9">>
\* The digits of `{:x}`.
HexChars ==
    <<"0", "1", "2", "3", "4", "5", "6", "7", "8", "9", "a", "b", "c", "d", "e", "f">>

RECURSIVE Digits(_)
\* `{}` of an unsigned value: its decimal digits.
Digits(n) ==
    IF n < 10 THEN DecChars[n + 1]
    ELSE Digits(n \div 10) \o DecChars[(n % 10) + 1]

\* `{}` of an i16: a minus sign before the digits of a negative value.
Signed(n) == IF n < 0 THEN "-" \o Digits(0 - n) ELSE Digits(n)

\* `{:08x}` of a u32: eight hex digits, zero padded, the highest first.
Hex8(w) ==
    HexChars[Field(w, 28, 4) + 1] \o HexChars[Field(w, 24, 4) + 1]
    \o HexChars[Field(w, 20, 4) + 1] \o HexChars[Field(w, 16, 4) + 1]
    \o HexChars[Field(w, 12, 4) + 1] \o HexChars[Field(w, 8, 4) + 1]
    \o HexChars[Field(w, 4, 4) + 1] \o HexChars[Field(w, 0, 4) + 1]

\* The mnemonic each arm of Display writes.
Mnemonic(tag) ==
    CASE tag = "Add" -> "add" [] tag = "Sub" -> "sub" [] tag = "Xor" -> "xor"
      [] tag = "Or" -> "or" [] tag = "Addi" -> "addi" [] tag = "Xori" -> "xori"
      [] tag = "Ori" -> "ori" [] tag = "Andi" -> "andi" [] tag = "Slli" -> "slli"
      [] tag = "Slri" -> "slri" [] tag = "Srai" -> "srai" [] tag = "Slti" -> "slti"
      [] tag = "Sltiu" -> "sltiu" [] tag = "Lb" -> "lb" [] tag = "Lh" -> "lh"
      [] tag = "Lw" -> "lw" [] tag = "Lbu" -> "lbu" [] tag = "Lhu" -> "lhu"
      [] tag = "Jalr" -> "jalr" [] tag = "Ecall" -> "ecall"
      [] tag = "Ebreak" -> "ebreak"

display_LoadAsImm(i) ==
    CASE i.tag \in {"Add", "Sub", "Xor", "Or"} ->
            Mnemonic(i.tag) \o " x" \o Digits(i.rd) \o ", x" \o Digits(i.rs1)
                \o ", x" \o Digits(i.rs2)
      [] i.tag \in {"Ecall", "Ebreak"} -> Mnemonic(i.tag)
      [] i.tag = "Unsupported" -> "unsupported(0x" \o Hex8(i.word) \o ")"
      [] OTHER ->
            Mnemonic(i.tag) \o " x" \o Digits(i.rd) \o ", x" \o Digits(i.rs1)
                \o ", " \o Signed(i.imm)

\* `fmt` of Display for RiscVInstruction.
display(i) ==
    CASE i.tag \in {"Add", "Sub", "Xor", "Or"} ->
            Mnemonic(i.tag) \o " x" \o Digits(i.rd) \o ", x" \o Digits(i.rs1)
                \o ", x" \o Digits(i.rs2)
      [] i.tag \in {"Lb", "Lh", "Lw", "Lbu", "Lhu"} ->
            Mnemonic(i.tag) \o " x" \o Digits(i.rd) \o ", " \o Signed(i.imm)
                \o "(x" \o Digits(i.rs1) \o ")"
      [] i.tag \in {"Ecall", "Ebreak"} -> Mnemonic(i.tag)
      [] i.tag = "Unsupported" -> "unsupported(0x" \o Hex8(i.word) \o ")"
      [] OTHER ->
            Mnemonic(i.tag) \o " x" \o Digits(i.rd) \o ", x" \o Digits(i.rs1)
                \o ", " \o Signed(i.imm)

\* The variants of RiscVInstruction.
Variants ==
    {"Add", "Sub", "Xor", "Or", "Addi", "Xori", "Ori", "Andi", "Slli", "Slri",
     "Srai", "Slti", "Sltiu", "Lb", "Lh", "Lw", "Lbu", "Lhu", "Jalr", "Ecall",
     "Ebreak", "Unsupported"}

(***************************************************************************)
(* The words the decoder is applied to: every combination of the sampled   *)
(* values of the six fields of a word.                                     *)
(***************************************************************************)
OpcodeSamples == {REG_OPCODE, IMM_OPCODE, LOAD_OPCODE, JALR_OPCODE, SYSTEM_OPCODE,
                  0, 35, 99, 111, 127}
RegSamples == {0, 1, 31}
Funct3Samples == 0..7
Rs2Samples == {0, 1, 2, 31}
Funct7Samples == {0, 1, 32, 33, 63, 64, 96, 127}

\* The word with the given fields, as the i32 with the same bits.
Encode(op, rd, f3, rs1, rs2, f7) ==
    op + rd * (2 ^ RD_SHIFT) + f3 * (2 ^ FUNCT3_SHIFT) + rs1 * (2 ^ RS1_SHIFT)
       + rs2 * (2 ^ RS2_SHIFT) + (IF f7 >= 64 THEN f7 - 128 ELSE f7) * (2 ^ FUNCT7_SHIFT)

Words ==
    { Encode(op, rd, f3, rs1, rs2, f7) :
        op \in OpcodeSamples, rd \in RegSamples, f3 \in Funct3Samples,
        rs1 \in RegSamples, rs2 \in Rs2Samples, f7 \in Funct7Samples }

\* The decoder is applied to the word.
Decode ==
    /\ insn = NoInsn
    /\ insn' = decode(word)
    /\ UNCHANGED <<word, text, config, derived>>
    /\ UNCHANGED rtvars

\* The decoded instruction is formatted with Display.
Display ==
    /\ insn # NoInsn /\ insn.tag # "Panic"
    /\ text = NoText
    /\ text' = display(insn)
    /\ UNCHANGED <<word, insn, config, derived>>
    /\ UNCHANGED rtvars

(***************************************************************************)
(* config.rs at the width of a usize.  The target is aarch64, so a usize   *)
(* has 64 bits; it is held as four 16-bit limbs, the lowest first.         *)
(***************************************************************************)
Limb == 2 ^ 16

\* `a * k` on usize for a small k: the low 64 bits of the product, and what
\* was carried out of them.
usize_mul(a, k) ==
    LET t1 == a[1] * k
        t2 == a[2] * k + t1 \div Limb
        t3 == a[3] * k + t2 \div Limb
        t4 == a[4] * k + t3 \div Limb
    IN  [limbs |-> <<t1 % Limb, t2 % Limb, t3 % Limb, t4 % Limb>>,
         carry |-> t4 \div Limb]

\* The values of Config::max_code_size that are drawn: around 0, around
\* usize::MAX / 4 (top limb 0x3fff / 0x4000) and up to usize::MAX.
UsizeSamples ==
    { <<l1, l2, l3, l4>> : l1 \in {0, 1, 1024, 65535}, l2 \in {0, 65535},
                           l3 \in {0, 65535},
                           l4 \in {0, 1, 16383, 16384, 32768, 65535} }

\* Config::max_native_code_size(&self): `self.max_code_size *
\* NATIVE_CODE_MULTIPLIER`.  When the product overflows, a build with
\* overflow checks panics and a build without them wraps.
MaxNativeCodeSize(overflow_checks) ==
    /\ derived = NoDerived
    /\ LET p == usize_mul(config, NATIVE_CODE_MULTIPLIER)
       IN  derived' = IF p.carry # 0 /\ overflow_checks
                      THEN [kind |-> "panic"]
                      ELSE [kind |-> "value", limbs |-> p.limbs]
    /\ UNCHANGED <<word, insn, text, config>>
    /\ UNCHANGED rtvars

(***************************************************************************)
(* The runtime's specification.                                            *)
(***************************************************************************)
Instances == [module : ModuleIds, memory : MemoryIds]
MaxArena == max_native_code_size(MaxCodeSize)

Init ==
    /\ engine = [e \in EngineIds |-> NoEngine]
    /\ module = [m \in ModuleIds |-> NoModule]
    /\ memory = [k \in MemoryIds |-> NoMemory]
    /\ instance = {}
    /\ frame = Idle
    /\ ret = NoRet
    /\ crashed = FALSE
    /\ word = 0
    /\ insn = NoInsn
    /\ text = NoText
    /\ config = <<0, 0, 0, 0>>
    /\ derived = NoDerived

Next ==
    \/ \E e \in EngineIds, c \in ConfigSizes : EngineNew(e, c)
    \/ \E e \in EngineIds : EngineDropHandle(e)
    \/ \E m \in ModuleIds, e \in EngineIds, ok \in BOOLEAN : ModuleNew(m, e, ok)
    \/ \E m \in ModuleIds : ModuleDrop(m)
    \/ \E k \in MemoryIds, e \in EngineIds : MemoryNew(k, e)
    \/ \E k \in MemoryIds : MemoryDrop(k)
    \/ \E m \in ModuleIds, code \in CodeSlices(MaxArena) \cup CodeSlices(NATIVE_CODE_MULTIPLIER) :
          SncCall(m, code)
    \/ \E ok \in BOOLEAN : SncProtectRW(ok)
    \/ SncCopy
    \/ \E ok \in BOOLEAN : SncProtectRX(ok)
    \/ \E ok \in BOOLEAN : SncClearCache(ok)
    \/ SncRecord
    \/ \E m \in ModuleIds : NativeCode(m)
    \/ \E m \in ModuleIds, k \in MemoryIds : InstanceNew(m, k)
    \/ \E inst \in Instances, pc \in 0..MaxArena, arg \in U32Samples,
          out \in U32Samples, fault \in BOOLEAN :
          InstanceCall(inst, pc, arg, out, fault)
    \/ \E inst \in Instances : InstanceDecompose(inst)
    \/ \E inst \in Instances : InstanceDrop(inst)

Spec == Init /\ [][Next]_vars

(***************************************************************************)
(* The decoder's specification.                                            *)
(***************************************************************************)
InitDecode ==
    /\ engine = [e \in EngineIds |-> NoEngine]
    /\ module = [m \in ModuleIds |-> NoModule]
    /\ memory = [k \in MemoryIds |-> NoMemory]
    /\ instance = {}
    /\ frame = Idle
    /\ ret = NoRet
    /\ crashed = FALSE
    /\ word \in Words
    /\ insn = NoInsn
    /\ text = NoText
    /\ config = <<0, 0, 0, 0>>
    /\ derived = NoDerived

NextDecode == Decode \/ Display

SpecDecode == InitDecode /\ [][NextDecode]_vars

(***************************************************************************)
(* The specification of Config::max_native_code_size.                      *)
(***************************************************************************)
InitConfig ==
    /\ engine = [e \in EngineIds |-> NoEngine]
    /\ module = [m \in ModuleIds |-> NoModule]
    /\ memory = [k \in MemoryIds |-> NoMemory]
    /\ instance = {}
    /\ frame = Idle
    /\ ret = NoRet
    /\ crashed = FALSE
    /\ word = 0
    /\ insn = NoInsn
    /\ text = NoText
    /\ config \in UsizeSamples
    /\ derived = NoDerived

NextConfig == \E overflow_checks \in BOOLEAN : MaxNativeCodeSize(overflow_checks)

SpecConfig == InitConfig /\ [][NextConfig]_vars

(***************************************************************************)
(* The properties.                                                         *)
(***************************************************************************)
MappedModules == { m \in ModuleIds : module[m].mapped }
SncFailures == {"MemoryProtectionFailed", "ClearCacheFailed"}

\* C1: in every reachable state, also inside a set_native_code call and
\* after one that failed at a permission transition or at the cache
\* invalidation, every mapped arena is read+write or read+execute, never
\* writable and executable at once.
C1_NeverWritableAndExecutable ==
    \A m \in MappedModules :
        /\ module[m].prot \in {{"R", "W"}, {"R", "X"}}
        /\ ~({"W", "X"} \subseteq module[m].prot)

\* A set_native_code call has failed at the cache invalidation and left the
\* arena read+execute.
C1_Witness ==
    /\ ret.op = "set_native_code" /\ ret.res = "ClearCacheFailed"
    /\ module[ret.m].mapped /\ module[ret.m].prot = {"R", "X"}

\* C2: Instance::new(module, memory) returns InvalidEngine whenever the
\* module's and the memory's engine are different allocations, whatever
\* their configs, and returns Ok (and holds the pair) exactly when they are
\* the same allocation.
C2_EngineIdentity ==
    [][\A m \in ModuleIds, k \in MemoryIds :
          ( /\ ret'.op = "Instance::new"
            /\ module[m].st = "host" /\ module'[m].st # "host"
            /\ memory[k].st = "host" /\ memory'[k].st # "host" )
          => /\ (module[m].engine # memory[k].engine) <=> (ret'.res = "InvalidEngine")
             /\ (module[m].engine = memory[k].engine) <=> (ret'.res = "Ok")
             /\ (ret'.res = "Ok") <=> ([module |-> m, memory |-> k] \in instance')
      ]_vars

\* Instance::new has returned InvalidEngine for a module and a memory of two
\* engines whose configs are equal.
C2_Witness ==
    /\ ret.op = "Instance::new" /\ ret.res = "InvalidEngine"
    /\ \E k \in MemoryIds :
          /\ memory[k].st = "dropped"
          /\ memory[k].engine # module[ret.m].engine
          /\ engine[memory[k].engine].max_code_size
                = engine[module[ret.m].engine].max_code_size

\* C3: set_native_code returns InvalidCodeSize exactly for slices longer
\* than max_native_code_size, and such a call leaves every module (arena
\* protection, contents, code_len) as it was; a slice of exactly
\* max_native_code_size bytes, with no protection or cache failure, succeeds.
C3_Returns ==
    ret.op = "set_native_code" =>
        /\ (ret.len > ArenaSize(ret.m)) <=> (ret.res = "InvalidCodeSize")
        /\ (ret.len = ArenaSize(ret.m) /\ ret.env = "none" /\ ret.res # "pending")
              => ret.res = "Ok"

C3_CodeSizeGuard ==
    /\ []C3_Returns
    /\ [][(ret'.op = "set_native_code" /\ ret'.res = "InvalidCodeSize")
            => (module' = module /\ frame' = Idle)]_vars

\* An oversize slice has been rejected on a module that holds installed code.
C3_Witness ==
    /\ ret.op = "set_native_code" /\ ret.res = "InvalidCodeSize"
    /\ ret.len = ArenaSize(ret.m) + 1
    /\ module[ret.m].native_code_size = ArenaSize(ret.m)
    /\ module[ret.m].prot = {"R", "X"}

\* C4: decode returns one of the variants of RiscVInstruction for every
\* word; the unreachable! arm of the opcode-0x13 funct3 match is not taken.
C4_DecodeTotal ==
    insn # NoInsn => (insn.tag \in Variants /\ insn.tag # "Panic")

\* A word of opcode 0x13 with funct3 0x7, the last arm before unreachable!,
\* has been decoded.
C4_Witness ==
    /\ insn # NoInsn /\ insn.tag = "Andi"
    /\ opcode_of(word) = 19 /\ Field(word, 12, 3) = 7

\* The rows of the dispatch table, by opcode, funct3 and funct7.
IsRow(op, f3, f7) ==
    \/ op = 51 /\ <<f3, f7>> \in {<<0, 0>>, <<0, 32>>, <<4, 0>>, <<6, 0>>, <<7, 0>>}
    \/ op = 19 /\ f3 \in {0, 2, 3, 4, 6, 7}
    \/ op = 19 /\ f3 = 1 /\ f7 = 0
    \/ op = 19 /\ f3 = 5 /\ f7 \in {0, 32}
    \/ op = 3 /\ f3 \in {0, 1, 2, 4, 5}
    \/ op = 103 /\ f3 = 0
    \/ op = 115 /\ f3 = 0

\* C5: a word whose opcode, funct3 and funct7 are no row of the dispatch
\* table decodes to Unsupported, and Unsupported always carries the input
\* word itself.
C5_UnsupportedVerbatim ==
    insn # NoInsn =>
        /\ ~IsRow(word % 128, (word \div 4096) % 8, (word \div 33554432) % 128)
              => insn = [tag |-> "Unsupported", word |-> word]
        /\ insn.tag = "Unsupported" => insn.word = word

\* A load with the unlisted funct3 0x3 and bit 31 set has been decoded to
\* Unsupported.
C5_Witness ==
    /\ insn # NoInsn /\ insn.tag = "Unsupported"
    /\ word % 128 = 3 /\ (word \div 4096) % 8 = 3 /\ word < 0

\* C6: when set_native_code(bytes) returns Ok the arena is read+execute,
\* code_len is bytes.len(), native_code() is bytes, and every arena byte
\* from offset bytes.len() on has the value it had when the call began.
C6_InstallPostcondition ==
    [][(frame.pc # "idle" /\ ret'.op = "set_native_code" /\ ret'.res = "Ok")
        => LET m == frame.m
               n == Len(frame.code)
           IN  /\ module'[m].prot = {"R", "X"}
               /\ module'[m].native_code_size = n
               /\ Len(module'[m].bytes) = Len(frame.entry.bytes)
               /\ SubSeq(module'[m].bytes, 1, module'[m].native_code_size) = frame.code
               /\ \A i \in (n + 1)..Len(frame.entry.bytes) :
                     module'[m].bytes[i] = frame.entry.bytes[i]
      ]_vars

\* A one-byte slice has been installed over a longer one: the bytes of the
\* longer one are still behind it.
C6_Witness ==
    /\ ret.op = "set_native_code" /\ ret.res = "Ok" /\ ret.len = 1
    /\ module[ret.m].native_code_size = 1
    /\ module[ret.m].bytes[2] # 0

\* C7 as claimed: every arena byte at an offset >= code_len is zero.
C7_ZeroBeyondCodeLen ==
    \A m \in MappedModules :
        \A i \in (module[m].native_code_size + 1)..Len(module[m].bytes) :
            module[m].bytes[i] = 0

\* C7, amended: every arena byte at an offset >= the length of the longest
\* slice copied into the arena so far is zero.
C7_ZeroBeyondWritten ==
    \A m \in MappedModules :
        /\ module[m].native_code_size <= module[m].written
        /\ \A i \in (module[m].written + 1)..Len(module[m].bytes) :
              module[m].bytes[i] = 0

\* A one-byte install after a longer copy: zero bytes follow the longest
\* copy, written bytes lie between code_len and it.
C7_Witness ==
    \E m \in MappedModules :
        /\ module[m].native_code_size = 1
        /\ module[m].written = Len(module[m].bytes)
        /\ module[m].bytes[2] # 0

\* C8 as claimed: Instance::call jumps into the arena only while it is
\* read+execute.
C8_CallOnlyWhenExecutable ==
    ret.op = "call" => module[ret.m].prot = {"R", "X"}

C10_Returns ==
    ret.op = "set_native_code" =>
        /\ ret.env \in {"rw", "rx"} <=> ret.res = "MemoryProtectionFailed"
        /\ ret.env = "cache" <=> ret.res = "ClearCacheFailed"
        /\ ret.res \in SncFailures
              => (module[ret.m].st = "host" /\ module[ret.m].mapped
                  /\ module[ret.m].munmaps = 0)

C12_AndDecodes ==
    ( /\ insn # NoInsn
      /\ word % 128 = 51 /\ (word \div 4096) % 8 = 7
      /\ (word \div 33554432) % 128 = 0 )
    => insn = [tag |-> "And", rd |-> (word \div 128) % 32,
               rs1 |-> (word \div 32768) % 32, rs2 |-> (word \div 1048576) % 32]

\* The variants whose immediate is the sign-extended 12-bit immediate.
ImmVariants ==
    {"Addi", "Slti", "Sltiu", "Xori", "Ori", "Andi", "Lb", "Lh", "Lw", "Lbu",
     "Lhu", "Jalr"}

\* C13: for a word that decodes to a non-shift I-type, a load or Jalr, the
\* decoded imm is the pattern p of bits [31:20] read as two's complement:
\* p - 4096 if bit 11 of p is set, else p (0x7FF is 2047, 0x800 is -2048,
\* 0xFFF is -1), whatever the funct7 bits are.
C13_SignExtension ==
    (insn # NoInsn /\ insn.tag \in ImmVariants) =>
        LET p == (word \div 1048576) % 4096
        IN  /\ insn.imm = IF p >= 2048 THEN p - 4096 ELSE p
            /\ p = 2047 => insn.imm = 2047
            /\ p = 2048 => insn.imm = 0 - 2048
            /\ p = 4095 => insn.imm = 0 - 1

\* A Jalr whose immediate bits are 0x800 has been decoded: imm is -2048.
C13_Witness ==
    /\ insn # NoInsn /\ insn.tag = "Jalr"
    /\ (word \div 1048576) % 4096 = 2048 /\ insn.imm = 0 - 2048

\* C14: for a word of opcode 0x13 that decodes to Slli (funct3 1, funct7 0),
\* Srli (funct3 5, funct7 0; the variant the code spells Slri) or Srai
\* (funct3 5, funct7 0x20), the decoded imm is bits [24:20] of the word and
\* lies in 0..31; bit 0x400 of Srai's 12-bit immediate is not part of it.
C14_ShiftImmediate ==
    (insn # NoInsn /\ word % 128 = 19) =>
        LET f3 == (word \div 4096) % 8
            f7 == (word \div 33554432) % 128
            shamt == (word \div 1048576) % 32
        IN  /\ (f3 = 1 /\ f7 = 0) => (insn.tag = "Slli" /\ insn.imm = shamt)
            /\ (f3 = 5 /\ f7 = 0) => (insn.tag = "Slri" /\ insn.imm = shamt)
            /\ (f3 = 5 /\ f7 = 32) => (insn.tag = "Srai" /\ insn.imm = shamt)
            /\ insn.tag \in {"Slli", "Slri", "Srai"} => insn.imm \in 0..31

\* An Srai by 31 has been decoded: its 12-bit immediate is 0x41f, imm is 31.
C14_Witness ==
    /\ insn # NoInsn /\ insn.tag = "Srai" /\ insn.imm = 31
    /\ (word \div 1048576) % 4096 = 1055

\* C15: decode(0x00000073) is Ecall and decode(0x00100073) is Ebreak, and
\* every other word of opcode 0x73 (non-zero rd, rs1 or funct3, or bits
\* [31:20] outside {0, 1}) decodes to Unsupported(word).
C15_SystemEncoding ==
    (insn # NoInsn /\ word % 128 = 115) =>
        /\ word = 115 <=> insn = [tag |-> "Ecall"]
        /\ word = 1048691 <=> insn = [tag |-> "Ebreak"]
        /\ word \notin {115, 1048691} => insn = [tag |-> "Unsupported", word |-> word]
        /\ ( \/ (word \div 128) % 32 # 0
             \/ (word \div 32768) % 32 # 0
             \/ (word \div 4096) % 8 # 0
             \/ (word \div 1048576) % 4096 \notin {0, 1} )
              => insn = [tag |-> "Unsupported", word |-> word]

\* A system word with rd, rs1 and funct3 zero and bits [31:20] = 0x020 (the
\* low five immediate bits clear) has been decoded to Unsupported.
C15_Witness ==
    /\ insn # NoInsn /\ insn.tag = "Unsupported"
    /\ word % 128 = 115 /\ word = 115 + 32 * 1048576

\* C16: for opcode 0x33, funct3 0 with funct7 0x00 is Add and with 0x20 is
\* Sub, funct3 4 with funct7 0x00 is Xor and funct3 6 with funct7 0x00 is Or,
\* each with rd, rs1, rs2 from bits [11:7], [19:15], [24:20]; funct7 alone
\* tells Add from Sub, and Xor or Or with funct7 0x20 is Unsupported.
C16_RegisterRows ==
    (insn # NoInsn /\ word % 128 = 51) =>
        LET f3 == (word \div 4096) % 8
            f7 == (word \div 33554432) % 128
            R(t) == [tag |-> t, rd |-> (word \div 128) % 32,
                     rs1 |-> (word \div 32768) % 32,
                     rs2 |-> (word \div 1048576) % 32]
        IN  /\ (f3 = 0 /\ f7 = 0) => insn = R("Add")
            /\ (f3 = 0 /\ f7 = 32) => insn = R("Sub")
            /\ (f3 = 4 /\ f7 = 0) => insn = R("Xor")
            /\ (f3 = 6 /\ f7 = 0) => insn = R("Or")
            /\ (f3 \in {4, 6} /\ f7 = 32)
                  => insn = [tag |-> "Unsupported", word |-> word]
            /\ insn.tag \in {"Add", "Sub"} => (f3 = 0 /\ (insn.tag = "Sub" <=> f7 = 32))

\* An Xor encoding with funct7 0x20 has been decoded to Unsupported.
C16_Witness ==
    /\ insn # NoInsn /\ insn.tag = "Unsupported"
    /\ word % 128 = 51 /\ (word \div 4096) % 8 = 4
    /\ (word \div 33554432) % 128 = 32

\* The rows of the dispatch table of the supported mnemonics: the variant,
\* opcode, funct3 and funct7 (0 where the row has none), and the fields.
R_Rows ==
    {<<"Add", 51, 0, 0>>, <<"Sub", 51, 0, 32>>, <<"Xor", 51, 4, 0>>,
     <<"Or", 51, 6, 0>>, <<"And", 51, 7, 0>>}
I_Rows ==
    {<<"Addi", 19, 0>>, <<"Slti", 19, 2>>, <<"Sltiu", 19, 3>>, <<"Xori", 19, 4>>,
     <<"Ori", 19, 6>>, <<"Andi", 19, 7>>, <<"Lb", 3, 0>>, <<"Lh", 3, 1>>,
     <<"Lw", 3, 2>>, <<"Lbu", 3, 4>>, <<"Lhu", 3, 5>>, <<"Jalr", 103, 0>>}
Shift_Rows == {<<"Slli", 19, 1, 0>>, <<"Slri", 19, 5, 0>>, <<"Srai", 19, 5, 32>>}
System_Rows == {<<"Ecall", 0>>, <<"Ebreak", 1>>}
ImmSamples == {0 - 2048, 0 - 1, 0, 1, 2047}
ShamtSamples == {0, 1, 31}

\* The canonical encoding E: the fields at their fixed bit positions.
E(op, rd, f3, rs1, hi) == op + rd * 128 + f3 * 4096 + rs1 * 32768 + hi * 1048576

\* C17 as claimed: for every supported mnemonic M and every field
\* combination in its ranges, decode(E(M, fields)) is M(fields).
C17_RoundTrip ==
    insn # NoInsn =>
      \A rd \in RegSamples, rs1 \in RegSamples :
        /\ \A row \in R_Rows, rs2 \in Rs2Samples :
              word = E(row[2], rd, row[3], rs1, rs2 + 32 * row[4])
                => insn = [tag |-> row[1], rd |-> rd, rs1 |-> rs1, rs2 |-> rs2]
        /\ \A row \in I_Rows, imm \in ImmSamples :
              word = E(row[2], rd, row[3], rs1, imm)
                => insn = [tag |-> row[1], rd |-> rd, rs1 |-> rs1, imm |-> imm]
        /\ \A row \in Shift_Rows, imm \in ShamtSamples :
              word = E(row[2], rd, row[3], rs1, imm + 32 * row[4])
                => insn = [tag |-> row[1], rd |-> rd, rs1 |-> rs1, imm |-> imm]
        /\ \A row \in System_Rows :
              word = E(115, 0, 0, 0, row[2]) => insn = [tag |-> row[1]]

\* The variants with register and immediate fields.
RegVariants == {"Add", "Sub", "Xor", "Or"}
ShiftVariants == {"Slli", "Slri", "Srai"}

\* C18: whatever the word, the decoded instruction has every register field
\* in 0..31, every immediate of a non-shift I-type, load or Jalr variant in
\* -2048..2047 and every immediate of a shift variant in 0..31.
C18_FieldRanges ==
    insn # NoInsn =>
        /\ insn.tag \in RegVariants \cup ImmVariants \cup ShiftVariants
              => (insn.rd \in 0..31 /\ insn.rs1 \in 0..31)
        /\ insn.tag \in RegVariants => insn.rs2 \in 0..31
        /\ insn.tag \in ImmVariants => insn.imm \in (0 - 2048)..2047
        /\ insn.tag \in ShiftVariants => insn.imm \in 0..31

\* A load with every bit of rd, rs1 and the immediate set has been decoded:
\* the registers are 31 and the immediate is -1.
C18_Witness ==
    /\ insn # NoInsn /\ insn.tag = "Lhu" /\ word < 0
    /\ insn.rd = 31 /\ insn.rs1 = 31 /\ insn.imm = 0 - 1

\* C19: Instance::new takes the module and the memory as they are, nothing
\* changes them while the instance holds them (whatever calls are made), and
\* the dissolve operation hands the same two back without destroying them:
\* the arena is still mapped with its protection, contents and code_len, and
\* the memory has its bytes.
C19_DecomposeReturnsPair ==
    [][/\ \A inst \in instance' \ instance :
             /\ module'[inst.module] = [module[inst.module] EXCEPT !.st = "inst"]
             /\ memory'[inst.memory] = [memory[inst.memory] EXCEPT !.st = "inst"]
       /\ \A inst \in instance \cap instance' :
             /\ module'[inst.module] = module[inst.module]
             /\ memory'[inst.memory] = memory[inst.memory]
       /\ ret'.op = "decompose" =>
             /\ Cardinality(instance \ instance') = 1
             /\ instance' \subseteq instance
             /\ \A inst \in instance \ instance' :
                   /\ ret'.m = inst.module
                   /\ module[inst.module].mapped
                   /\ module'[inst.module] = [module[inst.module] EXCEPT !.st = "host"]
                   /\ memory'[inst.memory] = [memory[inst.memory] EXCEPT !.st = "host"]
                   /\ Len(memory'[inst.memory].bytes) = MaxInstanceMemory
             /\ engine' = engine
      ]_vars

\* An instance over a module with installed code has been dissolved: the
\* module is back with the host, mapped, read+execute, its code in place.
C19_Witness ==
    /\ ret.op = "decompose" /\ instance = {}
    /\ module[ret.m].st = "host" /\ module[ret.m].mapped
    /\ module[ret.m].prot = {"R", "X"}
    /\ module[ret.m].native_code_size = Len(module[ret.m].bytes)
    /\ \E k \in MemoryIds :
          memory[k].st = "host" /\ memory[k].bytes = <<0, 0>>

\* The instances that own module m, and those that own memory k.
OwnersOfModule(m) == { inst \in instance : inst.module = m }
OwnersOfMemory(k) == { inst \in instance : inst.memory = k }

\* C20: every module and every memory is owned by at most one instance.  A
\* module or memory held by an instance is not with the host, so it is not
\* passed to a second Instance::new and set_native_code is not called on it
\* until the dissolve operation returns it.
C20_OwnedByOne ==
    /\ \A m \in ModuleIds :
          /\ Cardinality(OwnersOfModule(m)) <= 1
          /\ module[m].st = "inst" <=> OwnersOfModule(m) # {}
    /\ \A k \in MemoryIds :
          /\ Cardinality(OwnersOfMemory(k)) <= 1
          /\ memory[k].st = "inst" <=> OwnersOfMemory(k) # {}
    /\ frame.pc # "idle" => OwnersOfModule(frame.m) = {}
    /\ (ret.op = "set_native_code" /\ ret.res = "pending") => OwnersOfModule(ret.m) = {}

SncErrors == {"InvalidCodeSize", "MemoryProtectionFailed", "ClearCacheFailed"}

\* C22: code_len is between 0 and max_native_code_size, is 0 right after
\* Module::new, and changes only when set_native_code returns Ok: the error
\* returns of set_native_code and every native_code, Instance::new, call and
\* decompose leave it as it was.
C22_Bounds ==
    \A m \in MappedModules :
        /\ 0 <= module[m].native_code_size
        /\ module[m].native_code_size <= ArenaSize(m)

C22_CodeLen ==
    /\ []C22_Bounds
    /\ [][\A m \in ModuleIds :
            /\ (module[m].st = "none" /\ module'[m].st # "none")
                  => module'[m].native_code_size = 0
            /\ module'[m].native_code_size # module[m].native_code_size
                  => /\ ret'.op = "set_native_code" /\ ret'.res = "Ok"
                     /\ ret'.m = m /\ module'[m].native_code_size = ret'.len
            /\ ( \/ (ret'.op = "set_native_code" /\ ret'.res \in SncErrors)
                 \/ ret'.op \in {"native_code", "Instance::new", "call", "decompose"} )
                  => module'[m].native_code_size = module[m].native_code_size
          ]_vars

\* An install over a one-byte installation has failed at the cache
\* invalidation, after its bytes were copied: code_len is still 1.
C22_Witness ==
    /\ ret.op = "set_native_code" /\ ret.res = "ClearCacheFailed"
    /\ ret.len = Len(module[ret.m].bytes)
    /\ module[ret.m].native_code_size = 1
    /\ module[ret.m].bytes[2] # 0

SncOrder == <<"size", "rw", "copy", "rx", "cache", "record">>

\* C27: within one set_native_code call the steps are, in this order, the
\* size check, the transition to read+write, the copy, the transition to
\* read+execute, one cache invalidation over [base, base + bytes.len()) and
\* the recording of code_len.  Bytes are copied only while the arena is
\* read+write; the cache is invalidated once per successful installation,
\* only when the arena is read+execute, and not at all when the call is
\* rejected for size or fails at a permission transition.
C27_Steps ==
    /\ frame.pc # "idle" =>
          /\ frame.steps = SubSeq(SncOrder, 1, Len(frame.steps))
          /\ Len(frame.flushed) <= 1
    /\ (ret.op = "set_native_code" /\ ret.res # "pending") =>
          /\ ret.steps = SubSeq(SncOrder, 1, Len(ret.steps))
          /\ ret.res = "Ok" => (ret.steps = SncOrder /\ ret.flushed = <<ret.len>>)
          /\ ret.res = "InvalidCodeSize"
                => (ret.steps = <<"size">> /\ ret.flushed = <<>>)
          /\ ret.res = "MemoryProtectionFailed"
                => /\ ret.steps \in {<<"size", "rw">>, <<"size", "rw", "copy", "rx">>}
                   /\ ret.flushed = <<>>
          /\ ret.res = "ClearCacheFailed"
                => /\ ret.steps = <<"size", "rw", "copy", "rx", "cache">>
                   /\ ret.flushed = <<ret.len>>

C27_Step ==
    /\ \A m \in ModuleIds :
          (module[m].mapped /\ module'[m].mapped
           /\ module'[m].bytes # module[m].bytes)
            => (module[m].prot = {"R", "W"} /\ frame.pc = "copy" /\ frame.m = m)
    /\ (frame.pc = "copy" /\ frame'.pc = "rx")
          => module[frame.m].prot = {"R", "W"}
    /\ (frame.pc = "cache" /\ frame'.pc # "cache")
          => /\ module[frame.m].prot = {"R", "X"}
             /\ module'[frame.m].bytes = module[frame.m].bytes
             /\ SubSeq(module[frame.m].bytes, 1, Len(frame.code)) = frame.code

C27_StepOrder == []C27_Steps /\ [][C27_Step]_vars

\* A full-arena install has returned Ok after all six steps, with one cache
\* invalidation over the whole slice.
C27_Witness ==
    /\ ret.op = "set_native_code" /\ ret.res = "Ok"
    /\ ret.steps = SncOrder /\ ret.flushed = <<Len(module[ret.m].bytes)>>
    /\ ret.len = Len(module[ret.m].bytes)

\* C28 as claimed: with no call in progress, native_code() is the slice of
\* the most recent set_native_code call that returned Ok (empty if none).
C28_NativeCodeIsLastOk ==
    frame.pc = "idle" =>
        \A m \in MappedModules : native_code(m) = module[m].installed

\* C28, amended: with no call in progress native_code() has the length of
\* the most recent Ok slice and is that many leading bytes of the arena; it
\* is that slice as long as no later call has failed after copying a
\* non-empty slice.  When a call fails at the read+execute transition or at
\* the cache invalidation, the leading bytes of native_code() are those of
\* the failed call's slice, as far as that slice reaches.
C28_View ==
    /\ frame.pc = "idle" =>
          \A m \in MappedModules :
              /\ Len(native_code(m)) = Len(module[m].installed)
              /\ native_code(m) = SubSeq(module[m].bytes, 1, Len(module[m].installed))
              /\ ~module[m].stale => native_code(m) = module[m].installed
    /\ ret.op = "native_code" => ret.view = native_code(ret.m)

C28_NativeCodeAfterFailure ==
    /\ []C28_View
    /\ [][( /\ ret'.op = "set_native_code" /\ frame.pc # "idle"
             /\ ret'.res \in SncFailures /\ ret'.env \in {"rx", "cache"} )
            => LET m == frame.m
                   n == IF Len(frame.code) < module'[m].native_code_size
                        THEN Len(frame.code) ELSE module'[m].native_code_size
               IN  /\ module'[m].native_code_size = Len(frame.entry.installed)
                   /\ SubSeq(module'[m].bytes, 1, n) = SubSeq(frame.code, 1, n)
          ]_vars

\* A `ret` was installed; a later install of other bytes failed at the
\* cache invalidation: native_code() has four bytes, none of them the
\* installed ones.
C28_Witness ==
    /\ ret.op = "set_native_code" /\ ret.res = "ClearCacheFailed"
    /\ module[ret.m].installed = RET
    /\ Len(native_code(ret.m)) = 4
    /\ \A i \in 1..4 : native_code(ret.m)[i] # RET[i]

\* The live modules and memories that hold a handle to engine e.
HoldersOf(e) ==
    Cardinality({ m \in ModuleIds : module[m].st \in {"host", "inst"}
                                     /\ module[m].engine = e })
    + Cardinality({ k \in MemoryIds : memory[k].st \in {"host", "inst"}
                                       /\ memory[k].engine = e })

\* C30: an engine is alive as long as a module or memory made from it
\* exists: its reference count is at least the number of live modules and
\* memories holding it, its config does not change, and every mapped arena
\* has the max_native_code_size it was mapped with.
C30_Counts ==
    /\ \A e \in EngineIds :
          engine[e].st # "none" =>
              /\ engine[e].strong >= HoldersOf(e)
              /\ engine[e].strong = HoldersOf(e) + (IF engine[e].held THEN 1 ELSE 0)
              /\ HoldersOf(e) > 0 => engine[e].st = "live"
              /\ engine[e].st = "live" <=> engine[e].strong > 0
    /\ \A m \in MappedModules :
          /\ engine[module[m].engine].st = "live"
          /\ Len(module[m].bytes) = ArenaSize(m)

C30_EngineOutlives ==
    /\ []C30_Counts
    /\ [][\A e \in EngineIds :
            engine[e].st # "none"
              => engine'[e].max_code_size = engine[e].max_code_size]_vars

\* The host has dropped its handle to an engine; a module with a mapped
\* arena and a memory still hold it, and it is alive.
C30_Witness ==
    \E e \in EngineIds :
        /\ engine[e].st = "live" /\ ~engine[e].held /\ engine[e].strong = 2
        /\ \E m \in MappedModules : module[m].engine = e
        /\ \E k \in MemoryIds : memory[k].st # "dropped" /\ memory[k].engine = e

\* C23 as claimed: the instruction decoded from opcode 0x13, funct3 0x5,
\* funct7 0x00 is displayed as `srli x<rd>, x<rs1>, <imm>`.
C23_SrliDisplay ==
    ( /\ text # NoText
      /\ word % 128 = 19 /\ (word \div 4096) % 8 = 5
      /\ (word \div 33554432) % 128 = 0 )
    => text = "srli x" \o ToString((word \div 128) % 32) \o ", x"
                \o ToString((word \div 32768) % 32) \o ", "
                \o ToString((word \div 1048576) % 32)

\* The hex digit of the nibble of w that starts at bit b.
Nibble(w, b) ==
    LET v == (w \div (2 ^ b)) % 16
    IN  IF v < 10 THEN ToString(v)
        ELSE <<"a", "b", "c", "d", "e", "f">>[v - 9]

\* The lower-case name of a variant of the code.
Op(tag) ==
    CHOOSE op \in {"add", "sub", "xor", "or", "addi", "xori", "ori", "andi", "slli",
                   "slri", "srai", "slti", "sltiu", "lb", "lh", "lw", "lbu", "lhu",
                   "jalr", "ecall", "ebreak"} :
        <<tag, op>> \in
            {<<"Add", "add">>, <<"Sub", "sub">>, <<"Xor", "xor">>, <<"Or", "or">>,
             <<"Addi", "addi">>, <<"Xori", "xori">>, <<"Ori", "ori">>,
             <<"Andi", "andi">>, <<"Slli", "slli">>, <<"Slri", "slri">>,
             <<"Srai", "srai">>, <<"Slti", "slti">>, <<"Sltiu", "sltiu">>,
             <<"Lb", "lb">>, <<"Lh", "lh">>, <<"Lw", "lw">>, <<"Lbu", "lbu">>,
             <<"Lhu", "lhu">>, <<"Jalr", "jalr">>, <<"Ecall", "ecall">>,
             <<"Ebreak", "ebreak">>}

\* C24: display renders register instructions as `op xRD, xRS1, xRS2`;
\* I-type arithmetic, shifts and Jalr as `op xRD, xRS1, IMM` with IMM in
\* signed decimal; loads as `op xRD, IMM(xRS1)`; Ecall and Ebreak as the
\* bare mnemonic; Unsupported(w) as `unsupported(0x`, the 8 lower-case
\* zero-padded hex digits of w, and `)`.  (op is the name of the variant in
\* lower case.)
C24_DisplayForms ==
    text # NoText =>
        /\ insn.tag \in RegVariants =>
              text = Op(insn.tag) \o " x" \o ToString(insn.rd) \o ", x"
                       \o ToString(insn.rs1) \o ", x" \o ToString(insn.rs2)
        /\ insn.tag \in (ImmVariants \cup ShiftVariants)
                           \ {"Lb", "Lh", "Lw", "Lbu", "Lhu"} =>
              text = Op(insn.tag) \o " x" \o ToString(insn.rd) \o ", x"
                       \o ToString(insn.rs1) \o ", " \o ToString(insn.imm)
        /\ insn.tag \in {"Lb", "Lh", "Lw", "Lbu", "Lhu"} =>
              text = Op(insn.tag) \o " x" \o ToString(insn.rd) \o ", "
                       \o ToString(insn.imm) \o "(x" \o ToString(insn.rs1) \o ")"
        /\ insn.tag \in {"Ecall", "Ebreak"} => text = Op(insn.tag)
        /\ insn.tag = "Unsupported" =>
              /\ Len(text) = 23
              /\ text = "unsupported(0x" \o Nibble(insn.word, 28)
                           \o Nibble(insn.word, 24) \o Nibble(insn.word, 20)
                           \o Nibble(insn.word, 16) \o Nibble(insn.word, 12)
                           \o Nibble(insn.word, 8) \o Nibble(insn.word, 4)
                           \o Nibble(insn.word, 0) \o ")"

\* A load with a negative immediate has been displayed.
C24_Witness ==
    /\ text = "lw x31, -1(x1)" /\ insn.tag = "Lw"

\* The word whose bit b differs from w's, as the i32 with the same bits.
FlipBit(w, b) ==
    IF b = 31
    THEN IF w < 0 THEN (w + 1073741824) + 1073741824
         ELSE (w - 1073741824) - 1073741824
    ELSE IF (w \div (2 ^ b)) % 2 = 1 THEN w - 2 ^ b ELSE w + 2 ^ b

\* The word that the variant and the fields of an instruction determine.
Reencode(i) ==
    CASE i.tag = "Unsupported" -> i.word
      [] i.tag \in RegVariants ->
            LET row == CHOOSE r \in R_Rows : r[1] = i.tag
            IN  E(row[2], i.rd, row[3], i.rs1, i.rs2 + 32 * row[4])
      [] i.tag \in ImmVariants ->
            LET row == CHOOSE r \in I_Rows : r[1] = i.tag
            IN  E(row[2], i.rd, row[3], i.rs1, i.imm)
      [] i.tag \in ShiftVariants ->
            LET row == CHOOSE r \in Shift_Rows : r[1] = i.tag
            IN  E(row[2], i.rd, row[3], i.rs1, i.imm + 32 * row[4])
      [] i.tag \in {"Ecall", "Ebreak"} ->
            LET row == CHOOSE r \in System_Rows : r[1] = i.tag
            IN  E(115, 0, 0, 0, row[2])

\* C29: decode is injective.  Every bit of a word is determined by the
\* variant it decodes to and the variant's fields, so the word can be
\* rebuilt from the instruction; in particular no word that differs from it
\* in one bit decodes to the same instruction.
C29_DecodeInjective ==
    insn # NoInsn =>
        /\ Reencode(insn) = word
        /\ \A b \in 0..31 : decode(FlipBit(word, b)) # insn

\* An Srai has been decoded: the funct7 bits, which are no field of the
\* instruction, are determined by the variant.
C29_Witness ==
    /\ insn # NoInsn /\ insn.tag = "Srai" /\ insn.imm = 1
    /\ (word \div 33554432) % 128 = 32 /\ Reencode(insn) = word

\* The quarter of a usize given as limbs, and the remainder.
Quarter(a) ==
    LET q4 == a[4] \div 4
        c3 == (a[4] % 4) * 65536 + a[3]
        c2 == (c3 % 4) * 65536 + a[2]
        c1 == (c2 % 4) * 65536 + a[1]
    IN  [limbs |-> <<c1 \div 4, c2 \div 4, c3 \div 4, q4>>, rem |-> c1 % 4]

\* a < b for two usize values given as limbs.
UsizeLess(a, b) ==
    \E i \in 1..4 : a[i] < b[i] /\ \A j \in (i + 1)..4 : a[j] = b[j]

\* C25 as claimed: max_native_code_size() is max_code_size x 4 for every
\* usize value of max_code_size, also above usize::MAX / 4: it is never
\* smaller than max_code_size and never wraps.
C25_NoWrap ==
    derived # NoDerived =>
        /\ derived.kind = "value"
        /\ Quarter(derived.limbs) = [limbs |-> config, rem |-> 0]
        /\ ~UsizeLess(derived.limbs, config)

====
